---- MODULE Spec2Model ----
(***************************************************************************)
(* Model of src/ansi.rs: the Performer that turns the lexical events of    *)
(* vte::Parser (print, execute, hook/put/unhook, osc_*, csi_dispatch,      *)
(* esc_dispatch) into calls on a Handler, reading a TermInfo.              *)
(*                                                                         *)
(* Conventions.  Bytes and chars are their code points.  Slices are TLA+   *)
(* sequences read through At with the 0-based indices of the source; an    *)
(* index outside the slice is Rust's bounds-check panic and is reported as *)
(* fault.  A usize is the record [n, wrap] standing for wrap * 2^64 + n,   *)
(* so that the cast of a negative i64 keeps its 64-bit meaning.            *)
(***************************************************************************)
EXTENDS Integers, Sequences, FiniteSets, TLC

VARIABLES
    pc,             \* "idle" between two calls of advance, "dispatched" inside one
    ev,             \* the lexical event the parser hands to the Performer
    calls,          \* Handler calls made during the current advance, in order
    queries,        \* TermInfo accessors called during the current advance
    fault,          \* the Performer method panicked
    state,          \* Processor.state
    termLines,      \* what handler.lines() reports now
    prevUnhandled,  \* history: the advance before this one made no Handler call
    ref             \* history: one earlier dispatch, kept to compare with

vars == <<pc, ev, calls, queries, fault, state, termLines, prevUnhandled, ref>>

----------------------------------------------------------------------------
\* Chars and bytes

CharCode ==
    ("@" :> 64) @@ ("A" :> 65) @@ ("B" :> 66) @@ ("C" :> 67) @@ ("D" :> 68) @@
    ("E" :> 69) @@ ("F" :> 70) @@ ("G" :> 71) @@ ("H" :> 72) @@ ("I" :> 73) @@
    ("J" :> 74) @@ ("K" :> 75) @@ ("L" :> 76) @@ ("M" :> 77) @@ ("N" :> 78) @@
    ("P" :> 80) @@ ("S" :> 83) @@ ("T" :> 84) @@ ("X" :> 88) @@ ("Z" :> 90) @@
    ("grave" :> 96) @@ ("a" :> 97) @@ ("c" :> 99) @@ ("d" :> 100) @@ ("e" :> 101) @@
    ("f" :> 102) @@ ("g" :> 103) @@ ("h" :> 104) @@ ("l" :> 108) @@
    ("m" :> 109) @@ ("n" :> 110) @@ ("r" :> 114) @@ ("s" :> 115) @@
    ("u" :> 117) @@ ("?" :> 63) @@ ("#" :> 35) @@ ("7" :> 55) @@ ("8" :> 56) @@
    ("=" :> 61) @@ (">" :> 62) @@ ("x" :> 120)

Ch(c) == CharCode[c]

\* The C0 and C1 control codes that execute reads, and some it does not.
C0_NUL == 0
C0_BEL == 7
C0_BS == 8
C0_HT == 9
C0_LF == 10
C0_VT == 11
C0_FF == 12
C0_CR == 13
C0_SUB == 26
C0_ESC == 27
C1_IND == 132
C1_NEL == 133
C1_HTS == 136
C1_DECID == 154

----------------------------------------------------------------------------
\* The vocabulary

\* The ordinal of a Color: Black = 0 and the next fifteen in order.
Color(name) ==
    CASE name = "Black" -> 0
      [] name = "Red" -> 1
      [] name = "Green" -> 2
      [] name = "Yellow" -> 3
      [] name = "Blue" -> 4
      [] name = "Magenta" -> 5
      [] name = "Cyan" -> 6
      [] name = "White" -> 7
      [] name = "BrightBlack" -> 8
      [] name = "BrightRed" -> 9
      [] name = "BrightGreen" -> 10
      [] name = "BrightYellow" -> 11
      [] name = "BrightBlue" -> 12
      [] name = "BrightMagenta" -> 13
      [] name = "BrightCyan" -> 14
      [] name = "BrightWhite" -> 15

\* An Attr value: the variant and its payload (nothing, a Color, or r, g, b).
Attr(variant, payload) == [attr |-> variant, of |-> payload]

Rgb(r, g, b) == <<r, g, b>>

\* The numeric code of each Mode variant.
ModeCode(mode) ==
    CASE mode = "CursorKeys" -> 1
      [] mode = "Origin" -> 6
      [] mode = "BlinkingCursor" -> 12
      [] mode = "ShowCursor" -> 25
      [] mode = "SwapScreenAndSetRestoreCursor" -> 1049

\* Option<T>: None is the empty tuple, Some(x) the tuple of x.
None == <<>>
Some(x) == <<x>>
IsSome(o) == Len(o) = 1
Unwrap(o) == o[1]

\* `v as usize` of an i64 v.
as_usize(v) == [n |-> v, wrap |-> IF v < 0 THEN 1 ELSE 0]

\* `u - 1` on a usize that is not zero.
usize_pred(u) == [n |-> u.n - 1, wrap |-> u.wrap]

\* `u as i64` / `as _` of a usize below 2^63.
usize_as_i64(u) == u.n

\* One call on the Handler.
Call(fn, val) == [fn |-> fn, val |-> val]

\* What one Performer method did: the Handler calls it made in order, the
\* TermInfo accessors it called, and whether it panicked.
Outcome(c, q, f) == <<c, q, f>>
CallsOf(d) == d[1]
QueriesOf(d) == d[2]
FaultOf(d) == d[3]
Did(c) == Outcome(c, <<>>, FALSE)
Nothing == Did(<<>>)

\* args[i] with the 0-based index of the source.
At(s, i) == s[i + 1]
InBounds(s, i) == i >= 0 /\ i < Len(s)

----------------------------------------------------------------------------
\* Mode resolution

\* from_primitive resolving the numbers in both namespaces.
from_primitive_any_namespace(private, num) ==
    CASE num = 1 -> Some("CursorKeys")
      [] num = 6 -> Some("Origin")
      [] num = 12 -> Some("BlinkingCursor")
      [] num = 25 -> Some("ShowCursor")
      [] num = 1049 -> Some("SwapScreenAndSetRestoreCursor")
      [] OTHER -> None

\* Mode::from_primitive: the Mode of a number, in the private namespace only.
from_primitive(private, num) ==
    IF private
    THEN CASE num = 1 -> Some("CursorKeys")
           [] num = 6 -> Some("Origin")
           [] num = 12 -> Some("BlinkingCursor")
           [] num = 25 -> Some("ShowCursor")
           [] num = 1049 -> Some("SwapScreenAndSetRestoreCursor")
           [] OTHER -> None
    ELSE None

----------------------------------------------------------------------------
\* Performer: print, execute and the events without a Handler operation

\* print swallowing the character that follows an event nothing was called for.
print_after_unhandled(c) ==
    IF prevUnhandled THEN Nothing ELSE Did(<<Call("input", <<c>>)>>)

print(c) == Did(<<Call("input", <<c>>)>>)

execute(byte) ==
    CASE byte = C0_HT -> Did(<<Call("put_tab", <<1>>)>>)
      [] byte = C0_BS -> Did(<<Call("backspace", <<>>)>>)
      [] byte = C0_CR -> Did(<<Call("carriage_return", <<>>)>>)
      [] byte \in {C0_LF, C0_VT, C0_FF} -> Did(<<Call("linefeed", <<>>)>>)
      [] byte = C0_BEL -> Did(<<Call("bell", <<>>)>>)
      [] byte = C0_SUB -> Did(<<Call("substitute", <<>>)>>)
      [] byte = C1_NEL -> Did(<<Call("newline", <<>>)>>)
      [] byte = C1_HTS -> Did(<<Call("set_horizontal_tabstop", <<>>)>>)
      [] byte = C1_DECID -> Did(<<Call("identify_terminal", <<>>)>>)
      [] OTHER -> Nothing

hook(params, intermediates, ignore, byte) == Nothing

put(byte) == Nothing

unhook(byte) == Nothing

osc_start == Nothing

osc_put(byte) == Nothing

osc_end(byte) == Nothing

----------------------------------------------------------------------------
\* Performer::csi_dispatch

\* arg_or_default! keeping a parameter that is present and zero.
arg_or_default_absent_only(args, idx, default) ==
    IF InBounds(args, idx) THEN At(args, idx) ELSE default

\* arg_or_default!(idx, default): the parameter at idx, or the default when
\* it is absent or zero.
arg_or_default(args, idx, default) ==
    IF InBounds(args, idx) /\ At(args, idx) # 0 THEN At(args, idx) ELSE default

\* A count arm calling the handler once per unit of the count.
csi_count_repeated(fn, args) ==
    LET n == arg_or_default(args, 0, 1)
    IN  Did([k \in 1..n |-> Call(fn, <<as_usize(1)>>)])

\* The arms `handler.f(Line(arg_or_default!(idx: 0, default: 1) as usize))`,
\* the same with Column, and insert_blank.
csi_count(fn, args) ==
    Did(<<Call(fn, <<as_usize(arg_or_default(args, 0, 1))>>)>>)

\* 'I' and 'Z': the count stays an i64.
csi_tabs(fn, args) == Did(<<Call(fn, <<arg_or_default(args, 0, 1)>>)>>)

\* 'G' | '`' and 'd': a 1-based position made 0-based.
csi_goto_one(fn, args) ==
    Did(<<Call(fn, <<usize_pred(as_usize(arg_or_default(args, 0, 1)))>>)>>)

\* 'H' | 'f' with row and column taken from the wrong parameters.
csi_goto_swapped(args) ==
    LET y == as_usize(arg_or_default(args, 1, 1))
        x == as_usize(arg_or_default(args, 0, 1))
    IN  Did(<<Call("goto", <<usize_pred(y), usize_pred(x)>>)>>)

\* 'H' | 'f'
csi_goto(args) ==
    LET y == as_usize(arg_or_default(args, 0, 1))
        x == as_usize(arg_or_default(args, 1, 1))
    IN  Did(<<Call("goto", <<usize_pred(y), usize_pred(x)>>)>>)

\* 'g'
csi_clear_tabs(args) ==
    LET m == arg_or_default(args, 0, 0)
    IN  CASE m = 0 -> Did(<<Call("clear_tabs", <<"Current">>)>>)
          [] m = 3 -> Did(<<Call("clear_tabs", <<"All">>)>>)
          [] OTHER -> Nothing

\* 'J'
csi_clear_screen(args) ==
    LET m == arg_or_default(args, 0, 0)
    IN  CASE m = 0 -> Did(<<Call("clear_screen", <<"Below">>)>>)
          [] m = 1 -> Did(<<Call("clear_screen", <<"Above">>)>>)
          [] m = 2 -> Did(<<Call("clear_screen", <<"All">>)>>)
          [] OTHER -> Nothing

\* 'K'
csi_clear_line(args) ==
    LET m == arg_or_default(args, 0, 0)
    IN  CASE m = 0 -> Did(<<Call("clear_line", <<"Right">>)>>)
          [] m = 1 -> Did(<<Call("clear_line", <<"Left">>)>>)
          [] m = 2 -> Did(<<Call("clear_line", <<"All">>)>>)
          [] OTHER -> Nothing

\* 'l' and 'h' looking every number up in the private namespace.
csi_mode_public(fn, args, private) ==
    LET mode == from_primitive(TRUE, arg_or_default(args, 0, 0))
    IN  IF IsSome(mode) THEN Did(<<Call(fn, <<Unwrap(mode)>>)>>) ELSE Nothing

\* 'l' (fn = unset_mode) and 'h' (fn = set_mode)
csi_mode(fn, args, private) ==
    LET mode == from_primitive(private, arg_or_default(args, 0, 0))
    IN  IF IsSome(mode) THEN Did(<<Call(fn, <<Unwrap(mode)>>)>>) ELSE Nothing

\* 'r' with the line count read once, when the terminal was created.
csi_set_scrolling_region_cached(args, private, lines) ==
    IF private THEN Nothing
    ELSE LET arg0 == as_usize(arg_or_default(args, 0, 1))
             top == usize_pred(arg0)
             arg1 == as_usize(arg_or_default(args, 1, 24))
             bottom == arg1
         IN  Outcome(<<Call("set_scrolling_region", <<top, bottom>>)>>,
                     <<"lines">>, FALSE)

\* 'r'.  The default of the second argument is an argument of unwrap_or, so
\* handler.lines() is read before the parameter is looked at.
csi_set_scrolling_region(args, private, lines) ==
    IF private THEN Nothing
    ELSE LET arg0 == as_usize(arg_or_default(args, 0, 1))
             top == usize_pred(arg0)
             arg1 == as_usize(arg_or_default(args, 1, usize_as_i64(lines)))
             bottom == arg1
         IN  Outcome(<<Call("set_scrolling_region", <<top, bottom>>)>>,
                     <<"lines">>, FALSE)

----------------------------------------------------------------------------
\* SGR: the 'm' arm and parse_color

\* The result of parse_color: the Option<Rgb>, the cursor *i as it leaves it,
\* and whether an index was out of bounds.
Parsed(spec, i) == <<spec, i, FALSE>>
ParsePanic(i) == <<None, i, TRUE>>
SpecOf(p) == p[1]
CursorOf(p) == p[2]
Panicked(p) == p[3]

\* parse_color with the red and green channels read in the wrong order.
parse_color_swapped(attrs, i) ==
    IF Len(attrs) < 2 THEN Parsed(None, i)
    ELSE IF ~InBounds(attrs, i + 1) THEN ParsePanic(i)
    ELSE IF At(attrs, i + 1) = 2
         THEN IF Len(attrs) < 5 THEN Parsed(None, i)
              ELSE IF ~InBounds(attrs, i + 4) THEN ParsePanic(i)
              ELSE LET r == At(attrs, i + 3)
                       g == At(attrs, i + 2)
                       b == At(attrs, i + 4)
                       inRange(c) == 0 <= c /\ c <= 255
                   IN  IF ~inRange(r) \/ ~inRange(g) \/ ~inRange(b)
                       THEN Parsed(None, i + 4)
                       ELSE Parsed(Some(Rgb(r, g, b)), i + 4)
         ELSE Parsed(None, i)

\* parse_color(attrs, i).  attrs is the slice the caller passes and i the
\* caller's cursor; the function indexes attrs with *i+1 .. *i+4.
parse_color(attrs, i) ==
    IF Len(attrs) < 2 THEN Parsed(None, i)
    ELSE IF ~InBounds(attrs, i + 1) THEN ParsePanic(i)
    ELSE IF At(attrs, i + 1) = 2
         THEN IF Len(attrs) < 5 THEN Parsed(None, i)
              ELSE IF ~InBounds(attrs, i + 4) THEN ParsePanic(i)
              ELSE LET r == At(attrs, i + 2)
                       g == At(attrs, i + 3)
                       b == At(attrs, i + 4)
                       inRange(c) == 0 <= c /\ c <= 255
                   IN  IF ~inRange(r) \/ ~inRange(g) \/ ~inRange(b)
                       THEN Parsed(None, i + 4)
                       ELSE Parsed(Some(Rgb(r, g, b)), i + 4)
         ELSE Parsed(None, i)

\* The table with 90..97 given the eight normal colors.
sgr_attr_bright_as_normal(v) ==
    CASE v = 0 -> Some(Attr("Reset", <<>>))
      [] v = 1 -> Some(Attr("Bold", <<>>))
      [] v = 2 -> Some(Attr("Dim", <<>>))
      [] v = 3 -> Some(Attr("Italic", <<>>))
      [] v = 4 -> Some(Attr("Underscore", <<>>))
      [] v = 5 -> Some(Attr("BlinkSlow", <<>>))
      [] v = 6 -> Some(Attr("BlinkFast", <<>>))
      [] v = 7 -> Some(Attr("Reverse", <<>>))
      [] v = 8 -> Some(Attr("Hidden", <<>>))
      [] v = 9 -> Some(Attr("Strike", <<>>))
      [] v = 22 -> Some(Attr("CancelBoldDim", <<>>))
      [] v = 23 -> Some(Attr("CancelItalic", <<>>))
      [] v = 24 -> Some(Attr("CancelUnderline", <<>>))
      [] v = 25 -> Some(Attr("CancelBlink", <<>>))
      [] v = 27 -> Some(Attr("CancelReverse", <<>>))
      [] v = 28 -> Some(Attr("CancelHidden", <<>>))
      [] v = 29 -> Some(Attr("CancelStrike", <<>>))
      [] v \in 30..37 -> Some(Attr("Foreground", <<Color("Black") + (v - 30)>>))
      [] v = 39 -> Some(Attr("DefaultForeground", <<>>))
      [] v \in 40..47 -> Some(Attr("Background", <<Color("Black") + (v - 40)>>))
      [] v = 49 -> Some(Attr("DefaultBackground", <<>>))
      [] v \in 90..97 ->
            Some(Attr("Foreground", <<Color("Black") + (v - 90)>>))
      [] v \in 100..107 ->
            Some(Attr("Foreground", <<Color("BrightBlack") + (v - 100)>>))
      [] OTHER -> None

\* The table of the 'm' arm, without 38 and 48; None is the `_` arm.
sgr_attr(v) ==
    CASE v = 0 -> Some(Attr("Reset", <<>>))
      [] v = 1 -> Some(Attr("Bold", <<>>))
      [] v = 2 -> Some(Attr("Dim", <<>>))
      [] v = 3 -> Some(Attr("Italic", <<>>))
      [] v = 4 -> Some(Attr("Underscore", <<>>))
      [] v = 5 -> Some(Attr("BlinkSlow", <<>>))
      [] v = 6 -> Some(Attr("BlinkFast", <<>>))
      [] v = 7 -> Some(Attr("Reverse", <<>>))
      [] v = 8 -> Some(Attr("Hidden", <<>>))
      [] v = 9 -> Some(Attr("Strike", <<>>))
      [] v = 22 -> Some(Attr("CancelBoldDim", <<>>))
      [] v = 23 -> Some(Attr("CancelItalic", <<>>))
      [] v = 24 -> Some(Attr("CancelUnderline", <<>>))
      [] v = 25 -> Some(Attr("CancelBlink", <<>>))
      [] v = 27 -> Some(Attr("CancelReverse", <<>>))
      [] v = 28 -> Some(Attr("CancelHidden", <<>>))
      [] v = 29 -> Some(Attr("CancelStrike", <<>>))
      [] v \in 30..37 -> Some(Attr("Foreground", <<Color("Black") + (v - 30)>>))
      [] v = 39 -> Some(Attr("DefaultForeground", <<>>))
      [] v \in 40..47 -> Some(Attr("Background", <<Color("Black") + (v - 40)>>))
      [] v = 49 -> Some(Attr("DefaultBackground", <<>>))
      [] v \in 90..97 ->
            Some(Attr("Foreground", <<Color("BrightBlack") + (v - 90)>>))
      [] v \in 100..107 ->
            Some(Attr("Foreground", <<Color("BrightBlack") + (v - 100)>>))
      [] OTHER -> None

\* The loop of the 'm' arm from cursor i on, done being the calls made so far.
RECURSIVE sgr_loop(_, _, _)
sgr_loop(args, i, done) ==
    IF i >= Len(args) THEN Did(done)
    ELSE LET v == At(args, i) IN
         IF v \in {38, 48}
         THEN LET col == parse_color(SubSeq(args, i + 1, Len(args)), i)
                  variant == IF v = 38 THEN "ForegroundSpec"
                                       ELSE "BackgroundSpec"
              IN  IF Panicked(col)
                  THEN Outcome(done, <<>>, TRUE)
                  ELSE IF ~IsSome(SpecOf(col)) THEN Did(done)
                  ELSE sgr_loop(args, CursorOf(col) + 1,
                           Append(done, Call("terminal_attribute",
                               <<Attr(variant, Unwrap(SpecOf(col)))>>)))
         ELSE LET a == sgr_attr(v)
              IN  IF ~IsSome(a) THEN Did(done)
                  ELSE sgr_loop(args, i + 1,
                           Append(done, Call("terminal_attribute",
                               <<Unwrap(a)>>)))

\* The 'm' arm leaving after its first attribute.
csi_sgr_first_only(args) ==
    IF Len(args) = 0
    THEN Did(<<Call("terminal_attribute", <<Attr("Reset", <<>>)>>)>>)
    ELSE sgr_loop(SubSeq(args, 1, 1), 0, <<>>)

\* The 'm' arm passing over a parameter the table has no entry for.
csi_sgr_skipping(args) ==
    LET known(v) == v \in {38, 48} \/ IsSome(sgr_attr(v))
    IN  IF Len(args) = 0
        THEN Did(<<Call("terminal_attribute", <<Attr("Reset", <<>>)>>)>>)
        ELSE sgr_loop(SelectSeq(args, known), 0, <<>>)

\* 'm'
csi_sgr(args) ==
    IF Len(args) = 0
    THEN Did(<<Call("terminal_attribute", <<Attr("Reset", <<>>)>>)>>)
    ELSE sgr_loop(args, 0, <<>>)

\* Performer::csi_dispatch; lines is what handler.lines() returns.
csi_dispatch(args, intermediates, ignore, action, lines) ==
    LET private == Len(intermediates) > 0 /\ intermediates[1] = Ch("?")
    IN  CASE action = Ch("@") -> csi_count("insert_blank", args)
          [] action = Ch("A") -> csi_count("move_up", args)
          [] action \in {Ch("B"), Ch("e")} -> csi_count("move_down", args)
          [] action = Ch("c") -> Did(<<Call("identify_terminal", <<>>)>>)
          [] action \in {Ch("C"), Ch("a")} -> csi_count("move_forward", args)
          [] action = Ch("D") -> csi_count("move_backward", args)
          [] action = Ch("E") -> csi_count("move_down_and_cr", args)
          [] action = Ch("F") -> csi_count("move_up_and_cr", args)
          [] action = Ch("g") -> csi_clear_tabs(args)
          [] action \in {Ch("G"), Ch("grave")} -> csi_goto_one("goto_col", args)
          [] action \in {Ch("H"), Ch("f")} -> csi_goto(args)
          [] action = Ch("I") -> csi_tabs("move_forward_tabs", args)
          [] action = Ch("J") -> csi_clear_screen(args)
          [] action = Ch("K") -> csi_clear_line(args)
          [] action = Ch("S") -> csi_count("scroll_up", args)
          [] action = Ch("T") -> csi_count("scroll_down", args)
          [] action = Ch("L") -> csi_count("insert_blank_lines", args)
          [] action = Ch("l") -> csi_mode("unset_mode", args, private)
          [] action = Ch("M") -> csi_count("delete_lines", args)
          [] action = Ch("X") -> csi_count("erase_chars", args)
          [] action = Ch("P") -> csi_count("delete_chars", args)
          [] action = Ch("Z") -> csi_tabs("move_backward_tabs", args)
          [] action = Ch("d") -> csi_goto_one("goto_line", args)
          [] action = Ch("h") -> csi_mode("set_mode", args, private)
          [] action = Ch("m") -> csi_sgr(args)
          [] action = Ch("n") -> Did(<<Call("identify_terminal", <<>>)>>)
          [] action = Ch("r") -> csi_set_scrolling_region(args, private, lines)
          [] action = Ch("s") -> Did(<<Call("save_cursor_position", <<>>)>>)
          [] action = Ch("u") -> Did(<<Call("restore_cursor_position", <<>>)>>)
          [] OTHER -> Nothing

\* esc_dispatch answering only a sequence without intermediate bytes.
esc_dispatch_bare_only(params, intermediates, ignore, byte) ==
    IF Len(intermediates) > 0 THEN Nothing
    ELSE CASE byte = Ch("D") -> Did(<<Call("linefeed", <<>>)>>)
           [] byte = Ch("E") -> Did(<<Call("newline", <<>>)>>)
           [] byte = Ch("H") -> Did(<<Call("set_horizontal_tabstop", <<>>)>>)
           [] byte = Ch("M") -> Did(<<Call("reverse_index", <<>>)>>)
           [] byte = Ch("Z") -> Did(<<Call("identify_terminal", <<>>)>>)
           [] byte = Ch("c") -> Did(<<Call("reset_state", <<>>)>>)
           [] byte = Ch("7") -> Did(<<Call("save_cursor_position", <<>>)>>)
           [] byte = Ch("8") -> Did(<<Call("restore_cursor_position", <<>>)>>)
           [] byte = Ch("=") -> Did(<<Call("set_keypad_application_mode", <<>>)>>)
           [] byte = Ch(">") -> Did(<<Call("unset_keypad_application_mode", <<>>)>>)
           [] OTHER -> Nothing

\* Performer::esc_dispatch
esc_dispatch(params, intermediates, ignore, byte) ==
    CASE byte = Ch("D") -> Did(<<Call("linefeed", <<>>)>>)
      [] byte = Ch("E") -> Did(<<Call("newline", <<>>)>>)
      [] byte = Ch("H") -> Did(<<Call("set_horizontal_tabstop", <<>>)>>)
      [] byte = Ch("M") -> Did(<<Call("reverse_index", <<>>)>>)
      [] byte = Ch("Z") -> Did(<<Call("identify_terminal", <<>>)>>)
      [] byte = Ch("c") -> Did(<<Call("reset_state", <<>>)>>)
      [] byte = Ch("7") -> Did(<<Call("save_cursor_position", <<>>)>>)
      [] byte = Ch("8") -> Did(<<Call("restore_cursor_position", <<>>)>>)
      [] byte = Ch("=") -> Did(<<Call("set_keypad_application_mode", <<>>)>>)
      [] byte = Ch(">") -> Did(<<Call("unset_keypad_application_mode", <<>>)>>)
      [] OTHER -> Nothing

----------------------------------------------------------------------------
\* Lexical events: what vte::Parser::advance calls on the Performer

Event(kind, params, intermediates, ignore, byte) ==
    <<kind, params, intermediates, ignore, byte>>

KindOf(e) == e[1]
ParamsOf(e) == e[2]
IntermediatesOf(e) == e[3]
IgnoreOf(e) == e[4]
ByteOf(e) == e[5]

NoEvent == Event("none", <<>>, <<>>, FALSE, 0)

\* vte::Perform for Performer: the method the parser calls for event e.
Perform(e, lines) ==
    CASE KindOf(e) = "print" -> print(ByteOf(e))
      [] KindOf(e) = "execute" -> execute(ByteOf(e))
      [] KindOf(e) = "hook" ->
            hook(ParamsOf(e), IntermediatesOf(e), IgnoreOf(e), ByteOf(e))
      [] KindOf(e) = "put" -> put(ByteOf(e))
      [] KindOf(e) = "unhook" -> unhook(ByteOf(e))
      [] KindOf(e) = "osc_start" -> osc_start
      [] KindOf(e) = "osc_put" -> osc_put(ByteOf(e))
      [] KindOf(e) = "osc_end" -> osc_end(ByteOf(e))
      [] KindOf(e) = "csi" ->
            csi_dispatch(ParamsOf(e), IntermediatesOf(e), IgnoreOf(e),
                         ByteOf(e), lines)
      [] KindOf(e) = "esc" ->
            esc_dispatch(ParamsOf(e), IntermediatesOf(e), IgnoreOf(e),
                         ByteOf(e))

----------------------------------------------------------------------------
\* The events fed to the processor

MaxPosArgs == 2     \* longest parameter list of a CSI event other than SGR lists
MaxSgrPlain == 3    \* longest SGR list drawn freely from SgrVals
MaxPre == 2         \* most parameters before a truecolor group
MaxSuf == 2         \* most parameters after a truecolor group

SeqsUpTo(S, n) == UNION {[1..k -> S] : k \in 0..n}

IntermediateSets == {<<>>, <<Ch("?")>>, <<Ch("#")>>, <<Ch("#"), Ch("?")>>}

ModeVals == {1, 6, 12, 25, 1049, 2, 26}
PosVals == {-2, 0, 1, 3, 25}
PosArgs == SeqsUpTo(PosVals, MaxPosArgs) \cup {<<n>> : n \in ModeVals}

CsiFinals ==
    {Ch(c) : c \in {"@", "A", "B", "e", "c", "C", "a", "D", "E", "F", "g",
                    "G", "grave", "H", "f", "I", "J", "K", "S", "T", "L",
                    "l", "M", "X", "P", "Z", "d", "h", "m", "n", "r", "s",
                    "u", "N", "x"}}

EscFinals ==
    {Ch(c) : c \in {"D", "E", "H", "M", "Z", "c", "7", "8", "=", ">", "N"}}

SgrVals == {0, 1, 2, 4, 5, 38, 48, 99}
ChanVals == {-1, 0, 2, 66, 128, 255, 256}
SgrSingles == {<<v>> : v \in -1..108}
SgrPlain == SeqsUpTo(SgrVals, MaxSgrPlain)
Groups == {<<c, 2>> \o ch : c \in {38, 48}, ch \in SeqsUpTo(ChanVals, 3)}
Prefixes == SeqsUpTo({1}, MaxPre)
Suffixes == SeqsUpTo({0, 4}, MaxSuf) \cup {<<48, 2, 1, 2, 3>>, <<38, 2, 3, 2, 1>>}
SgrGrouped == {p \o g \o s : p \in Prefixes, g \in Groups, s \in Suffixes}

SgrEvent(a) == Event("csi", a, <<>>, FALSE, Ch("m"))

EscEvents ==
    {Event("esc", a, t, g, f) :
        a \in {<<>>, <<1>>}, t \in IntermediateSets, g \in BOOLEAN,
        f \in EscFinals}

ExecuteBytes ==
    {C0_HT, C0_BS, C0_CR, C0_LF, C0_VT, C0_FF, C0_BEL, C0_SUB, C0_NUL,
     C0_ESC, C1_NEL, C1_HTS, C1_DECID, C1_IND}

OtherEvents ==
    {Event("print", <<>>, <<>>, FALSE, c) : c \in {Ch("A"), Ch("m")}}
    \cup {Event("execute", <<>>, <<>>, FALSE, b) : b \in ExecuteBytes}
    \cup {Event("hook", a, t, g, Ch("x")) :
            a \in {<<>>, <<1>>}, t \in IntermediateSets, g \in BOOLEAN}
    \cup {Event(k, <<>>, <<>>, FALSE, b) :
            k \in {"put", "unhook", "osc_put", "osc_end"},
            b \in {C0_BEL, Ch("A")}}
    \cup {Event("osc_start", <<>>, <<>>, FALSE, 0)}

\* The line count of the test handler, and another one.
InitialLines == 24
LineVals == {InitialLines, 30}

----------------------------------------------------------------------------
\* The processor

ProcessorState == "ProcessorState"

\* A remembered dispatch: the event, the line count it ran against and what
\* it did; NoRef before one is taken.
Kept(e, lines, c, q) == <<TRUE, e, lines, c, q>>
NoRef == <<FALSE, NoEvent, 0, <<>>, <<>>>>
Taken(k) == k[1]
KeptEvent(k) == k[2]
KeptLines(k) == k[3]
KeptCalls(k) == k[4]
KeptQueries(k) == k[5]

\* TermInfo::lines of the handler
handler_lines == as_usize(termLines)

Init ==
    /\ pc = "idle"
    /\ ev = NoEvent
    /\ calls = <<>>
    /\ queries = <<>>
    /\ fault = FALSE
    /\ state = ProcessorState
    /\ termLines = InitialLines
    /\ prevUnhandled = FALSE
    /\ ref = NoRef

\* Processor::advance up to the end of the Performer method the parser calls
\* for the event e that the byte completes.
advance(e) ==
    /\ pc = "idle"
    /\ pc' = "dispatched"
    /\ ev' = e
    /\ LET did == Perform(e, handler_lines)
       IN  /\ calls' = CallsOf(did)
           /\ queries' = QueriesOf(did)
           /\ fault' = FaultOf(did)
    /\ UNCHANGED <<state, termLines, prevUnhandled, ref>>

\* advance returns to its caller; a panic does not return.
Return ==
    /\ pc = "dispatched"
    /\ ~fault
    /\ pc' = "idle"
    /\ ev' = NoEvent
    /\ calls' = <<>>
    /\ queries' = <<>>
    /\ prevUnhandled' = (calls = <<>>)
    /\ UNCHANGED <<fault, state, termLines, ref>>

\* As Return, and the observer keeps this dispatch to compare later ones with.
ReturnRemember ==
    /\ pc = "dispatched"
    /\ ~fault
    /\ ~Taken(ref)
    /\ pc' = "idle"
    /\ ev' = NoEvent
    /\ calls' = <<>>
    /\ queries' = <<>>
    /\ prevUnhandled' = (calls = <<>>)
    /\ ref' = Kept(ev, termLines, calls, queries)
    /\ UNCHANGED <<fault, state, termLines>>

\* The terminal is resized between two bytes.
Resize ==
    /\ pc = "idle"
    /\ \E n \in LineVals \ {termLines} : termLines' = n
    /\ UNCHANGED <<pc, ev, calls, queries, fault, state, prevUnhandled, ref>>

\* The parser completes a CSI sequence with a short parameter list.
AdvanceCsi ==
    /\ pc = "idle"
    /\ \E a \in PosArgs, t \in IntermediateSets, g \in BOOLEAN,
          f \in CsiFinals :
            advance(Event("csi", a, t, g, f))

\* The parser completes an SGR sequence without a truecolor group in it, or
\* with one placed freely.
AdvanceSgrPlain ==
    /\ pc = "idle"
    /\ \E a \in SgrSingles \cup SgrPlain : advance(SgrEvent(a))

\* The parser completes an SGR sequence holding a 38;2 or 48;2 group, whole or
\* cut short, between a prefix and a suffix.
AdvanceSgrGrouped ==
    /\ pc = "idle"
    /\ \E p \in Prefixes, g \in Groups, s \in Suffixes :
            advance(SgrEvent(p \o g \o s))

\* The parser completes an ESC sequence, or delivers any other event.
AdvanceOther ==
    /\ pc = "idle"
    /\ \E e \in EscEvents \cup OtherEvents : advance(e)

Next ==
    \/ AdvanceCsi
    \/ AdvanceSgrPlain
    \/ AdvanceSgrGrouped
    \/ AdvanceOther
    \/ Return
    \/ Resize

Spec == Init /\ [][Next]_vars

----------------------------------------------------------------------------
\* The processor and an observer that keeps one dispatch, over fewer events

HistArgs == {<<>>, <<3>>, <<25>>}
HistIntermediates == {<<>>, <<Ch("?")>>}
HistSgr == {<<38, 2, 0, 2, 255>>, <<1, 38, 2>>, <<1, 4>>, <<99>>}

HistOther ==
    {Event("esc", <<>>, t, FALSE, f) :
        t \in {<<>>, <<Ch("#")>>}, f \in EscFinals}
    \cup {Event("execute", <<>>, <<>>, FALSE, b) : b \in {C0_HT, C0_NUL}}
    \cup {Event("print", <<>>, <<>>, FALSE, Ch("A"))}
    \cup {Event("hook", <<1>>, <<>>, FALSE, Ch("x"))}
    \cup {Event(k, <<>>, <<>>, FALSE, Ch("A")) :
            k \in {"put", "unhook", "osc_put", "osc_end"}}
    \cup {Event("osc_start", <<>>, <<>>, FALSE, 0)}

AdvanceHistCsi ==
    /\ pc = "idle"
    /\ \E a \in HistArgs, t \in HistIntermediates, f \in CsiFinals :
            advance(Event("csi", a, t, FALSE, f))

AdvanceHistSgr ==
    /\ pc = "idle"
    /\ \E a \in HistSgr : advance(SgrEvent(a))

AdvanceHistOther ==
    /\ pc = "idle"
    /\ \E e \in HistOther : advance(e)

NextHist ==
    \/ AdvanceHistCsi
    \/ AdvanceHistSgr
    \/ AdvanceHistOther
    \/ Return
    \/ ReturnRemember
    \/ Resize

SpecHist == Init /\ [][NextHist]_vars

----------------------------------------------------------------------------
\* The processor and the observer over CSI sequences whose parameters are
\* absent, zero or set

ZeroArgs == {<<>>, <<0>>, <<1>>, <<3>>, <<0, 0>>, <<3, 0>>, <<0, 3>>, <<1, 3>>}

AdvanceZeroCsi ==
    /\ pc = "idle"
    /\ \E a \in ZeroArgs, t \in HistIntermediates, f \in CsiFinals :
            advance(Event("csi", a, t, FALSE, f))

NextZero ==
    \/ AdvanceZeroCsi
    \/ Return
    \/ ReturnRemember
    \/ Resize

SpecZero == Init /\ [][NextZero]_vars

----------------------------------------------------------------------------
\* The processor and the observer over ESC and CSI sequences that differ in
\* their intermediate bytes, their ignore flag and, for ESC, their parameters

FlagIntermediates ==
    {<<>>, <<Ch("?")>>, <<Ch("#")>>, <<Ch("?"), Ch("#")>>,
     <<Ch("#"), Ch("?")>>}

FlagEsc ==
    {Event("esc", a, t, g, f) :
        a \in {<<>>, <<1>>}, t \in {<<>>, <<Ch("#")>>, <<Ch("?")>>},
        g \in BOOLEAN, f \in EscFinals}

AdvanceFlagCsi ==
    /\ pc = "idle"
    /\ \E t \in FlagIntermediates, g \in BOOLEAN, f \in CsiFinals :
            advance(Event("csi", <<25>>, t, g, f))

AdvanceFlagEsc ==
    /\ pc = "idle"
    /\ \E e \in FlagEsc : advance(e)

NextFlags ==
    \/ AdvanceFlagCsi
    \/ AdvanceFlagEsc
    \/ Return
    \/ ReturnRemember

SpecFlags == Init /\ [][NextFlags]_vars

----------------------------------------------------------------------------
\* Properties

\* The Performer has run csi_dispatch with the final byte c.
IsCsi(c) == pc = "dispatched" /\ KindOf(ev) = "csi" /\ ByteOf(ev) = Ch(c)
IsSgr == IsCsi("m")
Params == ParamsOf(ev)

\* The first intermediate byte of the event is '?'.
IsPrivate == Len(IntermediatesOf(ev)) > 0 /\ IntermediatesOf(ev)[1] = Ch("?")

TermAttr(a) == Call("terminal_attribute", <<a>>)

\* v is a code of the SGR table other than the two color introducers.
Recognized(v) == v \notin {38, 48} /\ IsSome(sgr_attr(v))

\* The calls the table gives for the parameters p[from..to], in order.
Mapped(p, from, to) ==
    [k \in 1..(to - from + 1) |-> TermAttr(Unwrap(sgr_attr(p[from + k - 1])))]

\* The usize holding the integer v, taken modulo 2^64.
Usize(v) == [n |-> v, wrap |-> IF v < 0 THEN 1 ELSE 0]

\* The k-th parameter (1-based), or 1 when it is absent or zero.
DefaultOne(p, k) == IF Len(p) >= k /\ p[k] # 0 THEN p[k] ELSE 1

\* The 0-based usize of the 1-based position v.
ZeroBased(v) == [n |-> v - 1, wrap |-> IF v < 0 THEN 1 ELSE 0]

\* p holds at k (1-based) a color introducer, the selector 2 and three
\* channels.
GroupAt(p, k) == k + 4 <= Len(p) /\ p[k] \in {38, 48} /\ p[k + 1] = 2
ChannelsInRange(p, k) == \A j \in (k + 2)..(k + 4) : p[j] \in 0..255
SpecAttr(p, k) ==
    Attr(IF p[k] = 38 THEN "ForegroundSpec" ELSE "BackgroundSpec",
         <<p[k + 2], p[k + 3], p[k + 4]>>)

\* C1: no dispatch of any event panics.
C1_NeverFaults == fault = FALSE

\* C2: an SGR dispatch whose whole parameter list is 38;2;r;g;b (48;2;r;g;b)
\* with the channels in 0..255 makes exactly one call,
\* terminal_attribute(ForegroundSpec(r, g, b)) (BackgroundSpec(r, g, b)).
C2_TruecolorAlone ==
    (IsSgr /\ Len(Params) = 5 /\ GroupAt(Params, 1)
        /\ ChannelsInRange(Params, 1))
    => /\ ~fault
       /\ calls = <<TermAttr(SpecAttr(Params, 1))>>

C2_Witness ==
    /\ IsSgr
    /\ Params = <<38, 2, 128, 66, 255>>
    /\ calls = <<TermAttr(Attr("ForegroundSpec", <<128, 66, 255>>))>>

\* C3: an SGR dispatch whose parameters are all recognized codes other than
\* 38 and 48 makes one terminal_attribute call per parameter, in list order,
\* each with the table's attribute, and nothing else; with no parameters it
\* does what it does for the list [0]: one Reset.
C3_PlainSgr ==
    IsSgr =>
        /\ Len(Params) = 0 =>
            /\ ~fault
            /\ queries = <<>>
            /\ calls = Mapped(<<0>>, 1, 1)
            /\ calls = <<TermAttr(Attr("Reset", <<>>))>>
        /\ (Len(Params) > 0 /\ \A k \in 1..Len(Params) : Recognized(Params[k]))
            => /\ ~fault
               /\ queries = <<>>
               /\ calls = Mapped(Params, 1, Len(Params))

C3_Witness ==
    /\ IsSgr
    /\ Params = <<1, 4, 0>>
    /\ calls = <<TermAttr(Attr("Bold", <<>>)), TermAttr(Attr("Underscore", <<>>)),
                 TermAttr(Attr("Reset", <<>>))>>

\* C4: when the first 38 or 48 of an SGR list is followed by the selector 2
\* and three channels of which one is outside 0..255, the calls made are the
\* attributes of the parameters before it and no other.
C4_OutOfRangeAborts ==
    IsSgr =>
        \A k \in 1..Len(Params) :
            (/\ GroupAt(Params, k)
             /\ ~ChannelsInRange(Params, k)
             /\ \A j \in 1..(k - 1) : Recognized(Params[j]))
            => calls = Mapped(Params, 1, k - 1)

\* C5: CSI H and CSI f make exactly one call, goto(Line(y - 1), Column(x - 1)),
\* y the first and x the second parameter, each 1 when absent or zero.
C5_Goto ==
    (IsCsi("H") \/ IsCsi("f")) =>
        /\ ~fault
        /\ calls = <<Call("goto", <<ZeroBased(DefaultOne(Params, 1)),
                                    ZeroBased(DefaultOne(Params, 2))>>)>>
        /\ Len(Params) = 0 => calls = <<Call("goto", <<Usize(0), Usize(0)>>)>>

C5_Witness ==
    /\ IsCsi("H")
    /\ Params = <<3, 0>>
    /\ calls = <<Call("goto", <<Usize(2), Usize(0)>>)>>

\* C6: a CSI r without the private marker makes exactly one call,
\* set_scrolling_region(top..bottom), top the first parameter (1 when absent
\* or zero) minus 1 and bottom the second parameter or, when that is absent
\* or zero, the line count the terminal reports at this dispatch.
C6_ScrollingRegion ==
    (IsCsi("r") /\ ~IsPrivate) =>
        LET top == ZeroBased(DefaultOne(Params, 1))
            bottom == IF Len(Params) >= 2 /\ Params[2] # 0
                      THEN Usize(Params[2])
                      ELSE Usize(termLines)
        IN  /\ ~fault
            /\ calls = <<Call("set_scrolling_region", <<top, bottom>>)>>

\* A CSI r after the terminal was resized from 24 to 30 lines.
C6_Witness ==
    /\ IsCsi("r")
    /\ ~IsPrivate
    /\ Params = <<>>
    /\ termLines = 30
    /\ calls = <<Call("set_scrolling_region", <<Usize(0), Usize(30)>>)>>

\* C7: CSI h and CSI l, which hand (private, first parameter) to
\* Mode::from_primitive, get a mode exactly when the sequence is private and
\* the number is 1, 6, 12, 25 or 1049, and then the mode with that code;
\* otherwise they get none, and nothing panics.
C7_ModeResolution ==
    (IsCsi("h") \/ IsCsi("l")) =>
        LET n == IF Len(Params) >= 1 THEN Params[1] ELSE 0
        IN  /\ ~fault
            /\ IF IsPrivate /\ n \in {1, 6, 12, 25, 1049}
               THEN /\ Len(calls) = 1
                    /\ calls[1].fn = IF IsCsi("h") THEN "set_mode"
                                                   ELSE "unset_mode"
                    /\ ModeCode(calls[1].val[1]) = n
               ELSE calls = <<>>

C7_Witness ==
    /\ IsCsi("h")
    /\ IsPrivate
    /\ Params = <<25>>
    /\ calls = <<Call("set_mode", <<"ShowCursor">>)>>

\* The final bytes csi_dispatch and esc_dispatch have an arm for.
CsiTable ==
    {Ch(c) : c \in {"@", "A", "B", "e", "c", "C", "a", "D", "E", "F", "g",
                    "G", "grave", "H", "f", "I", "J", "K", "S", "T", "L",
                    "l", "M", "X", "P", "Z", "d", "h", "m", "n", "r", "s",
                    "u"}}
EscTable ==
    {Ch(c) : c \in {"D", "E", "H", "M", "Z", "c", "7", "8", "=", ">"}}

\* The event is one the Handler has no operation for.
Unsupported ==
    \/ KindOf(ev) \in {"hook", "put", "unhook", "osc_start", "osc_put",
                       "osc_end"}
    \/ KindOf(ev) = "csi" /\ ByteOf(ev) \notin CsiTable
    \/ /\ KindOf(ev) = "csi"
       /\ ByteOf(ev) \in {Ch("h"), Ch("l")}
       /\ ~(/\ IsPrivate
            /\ Len(Params) >= 1
            /\ Params[1] \in {1, 6, 12, 25, 1049})
    \/ KindOf(ev) = "esc" /\ ByteOf(ev) \notin EscTable

\* The observer kept a dispatch of this same event against this same line
\* count.
SameAsKept ==
    /\ pc = "dispatched"
    /\ Taken(ref)
    /\ KeptEvent(ref) = ev
    /\ KeptLines(ref) = termLines

\* C8: an unsupported event makes no Handler call, reads nothing, does not
\* panic and leaves the processor state as it was; and the event dispatched
\* right after an advance that called nothing does exactly what the same
\* event did when the observer kept it.
C8_UnsupportedIsInert ==
    pc = "dispatched" =>
        /\ Unsupported =>
            /\ calls = <<>>
            /\ queries = <<>>
            /\ ~fault
            /\ state = ProcessorState
        /\ (prevUnhandled /\ SameAsKept) =>
            /\ ~fault
            /\ calls = KeptCalls(ref)

\* ESC 8 dispatched right after an event nothing was called for.
C8_Witness ==
    /\ SameAsKept
    /\ prevUnhandled
    /\ KindOf(ev) = "esc"
    /\ ByteOf(ev) = Ch("8")
    /\ calls = <<Call("restore_cursor_position", <<>>)>>

C10_GroupAnywhere ==
    IsSgr =>
        \A k \in 1..Len(Params) :
            (/\ GroupAt(Params, k)
             /\ ChannelsInRange(Params, k)
             /\ \A j \in (1..(k - 1)) \cup ((k + 5)..Len(Params)) :
                    Recognized(Params[j]))
            => /\ ~fault
               /\ calls = Mapped(Params, 1, k - 1)
                          \o <<TermAttr(SpecAttr(Params, k))>>
                          \o Mapped(Params, k + 5, Len(Params))

\* p holds at k (1-based) a color introducer that no whole 2;r;g;b follows:
\* it is the last parameter, or its selector is not 2, or fewer than three
\* channels follow the selector.
MalformedAt(p, k) ==
    /\ p[k] \in {38, 48}
    /\ \/ k = Len(p)
       \/ p[k + 1] # 2
       \/ Len(p) < k + 4

\* C11: when the first 38 or 48 of an SGR list, at whatever index, has no
\* selector after it, a selector other than 2, or the selector 2 and fewer
\* than three channels, the dispatch does not panic and its calls are the
\* attributes of the parameters before the introducer and no other: nothing
\* for the group and nothing for the parameters after it.
C11_MalformedGroupAborts ==
    IsSgr =>
        \A k \in 1..Len(Params) :
            (/\ MalformedAt(Params, k)
             /\ \A j \in 1..(k - 1) : Recognized(Params[j]))
            => /\ ~fault
               /\ calls = Mapped(Params, 1, k - 1)

\* v is a parameter the 'm' arm has no entry for.
Unrecognized(v) == v \notin {38, 48} /\ ~IsSome(sgr_attr(v))

\* C12: in an SGR list without 38 and 48, a parameter the table does not
\* have is passed over and the ones after it are still processed: the calls
\* are the attributes of the recognized parameters, in list order.
C12_UnrecognizedSkipped ==
    (IsSgr /\ \A k \in 1..Len(Params) : Params[k] \notin {38, 48}) =>
        LET rec == SelectSeq(Params, Recognized)
        IN  /\ ~fault
            /\ Len(Params) > 0 => calls = Mapped(rec, 1, Len(rec))

\* C12 as amended: the first parameter the table does not have ends the
\* dispatch; with recognized codes before it, the calls are their attributes
\* and no other, whatever follows it, and nothing panics.
C12_UnrecognizedEnds ==
    IsSgr =>
        \A k \in 1..Len(Params) :
            (/\ Unrecognized(Params[k])
             /\ \A j \in 1..(k - 1) : Recognized(Params[j]))
            => /\ ~fault
               /\ queries = <<>>
               /\ calls = Mapped(Params, 1, k - 1)

\* Bold, then 99, then the Underscore that is never delivered.
C12_Witness ==
    /\ IsSgr
    /\ Params = <<1, 99, 4>>
    /\ calls = <<TermAttr(Attr("Bold", <<>>))>>

\* The final bytes whose arm reads a parameter through arg_or_default!.
DefaultingFinals ==
    {Ch(c) : c \in {"@", "A", "B", "e", "C", "a", "D", "E", "F", "G", "grave",
                    "H", "f", "I", "S", "T", "L", "M", "X", "P", "Z", "d",
                    "g", "J", "K", "h", "l", "r"}}
\* Those that take a count of lines, columns or characters, a count of tab
\* stops, and a 1-based position.
CountFinals ==
    {Ch(c) : c \in {"@", "A", "B", "e", "C", "a", "D", "E", "F", "S", "T",
                    "L", "M", "X", "P"}}
TabFinals == {Ch("I"), Ch("Z")}
PositionFinals == {Ch("G"), Ch("grave"), Ch("d")}

\* p as a list of n parameters, an absent one written 0.
ZeroFilled(p, n) == [k \in 1..n |-> IF k <= Len(p) THEN p[k] ELSE 0]

\* p and q differ at most in parameters that are absent in one and 0 in the
\* other.
ZeroIsAbsent(p, q) ==
    LET n == IF Len(p) > Len(q) THEN Len(p) ELSE Len(q)
    IN  ZeroFilled(p, n) = ZeroFilled(q, n)

\* The observer kept a CSI dispatch with this final byte, these intermediates
\* and this line count, whose parameters differ from the present ones at most
\* in absent against zero.
KeptAlikeButZeros ==
    /\ pc = "dispatched"
    /\ Taken(ref)
    /\ KindOf(ev) = "csi"
    /\ KindOf(KeptEvent(ref)) = "csi"
    /\ ByteOf(ev) \in DefaultingFinals
    /\ ByteOf(KeptEvent(ref)) = ByteOf(ev)
    /\ IntermediatesOf(KeptEvent(ref)) = IntermediatesOf(ev)
    /\ KeptLines(ref) = termLines
    /\ ZeroIsAbsent(ParamsOf(KeptEvent(ref)), Params)

\* C13: for the final bytes that read parameters through the defaulting rule,
\* two CSI dispatches that differ only in a parameter being absent in one and
\* 0 in the other make the same calls; and when the first parameter is
\* absent, 0 or 1 a count action is called with 1, a tab action with 1 and a
\* position action with the 0-based position 0, so that CSI 0 A, CSI A and
\* CSI 1 A all call move_up(Line(1)).
C13_ZeroIsAbsent ==
    /\ KeptAlikeButZeros =>
        /\ ~fault
        /\ calls = KeptCalls(ref)
    /\ (pc = "dispatched" /\ KindOf(ev) = "csi" /\ DefaultOne(Params, 1) = 1) =>
        /\ ByteOf(ev) \in CountFinals =>
            Len(calls) = 1 /\ calls[1].val = <<Usize(1)>>
        /\ ByteOf(ev) \in TabFinals =>
            Len(calls) = 1 /\ calls[1].val = <<1>>
        /\ ByteOf(ev) \in PositionFinals =>
            Len(calls) = 1 /\ calls[1].val = <<Usize(0)>>
        /\ ByteOf(ev) = Ch("A") => calls = <<Call("move_up", <<Usize(1)>>)>>

\* CSI 0 A after the observer kept CSI A.
C13_Witness ==
    /\ KeptAlikeButZeros
    /\ IsCsi("A")
    /\ Params = <<0>>
    /\ ParamsOf(KeptEvent(ref)) = <<>>
    /\ calls = <<Call("move_up", <<Usize(1)>>)>>

\* The Attr variants that cancel an attribute.
Cancellations ==
    {"CancelBoldDim", "CancelItalic", "CancelUnderline", "CancelBlink",
     "CancelReverse", "CancelHidden", "CancelStrike"}

\* The SGR dispatch of the single parameter v made one terminal_attribute
\* call; for v in cancels its attribute is a cancellation, for 30+k and 40+k
\* Foreground and Background of the color with ordinal k, for 90+k and 100+k
\* Foreground of the color with ordinal 8+k.
OneAttrOf(v, cancels) ==
    /\ ~fault
    /\ Len(calls) = 1
    /\ calls[1].fn = "terminal_attribute"
    /\ Len(calls[1].val) = 1
    /\ v \in cancels => calls[1].val[1].attr \in Cancellations
    /\ v \in 30..37 => calls[1].val[1] = Attr("Foreground", <<v - 30>>)
    /\ v \in 40..47 => calls[1].val[1] = Attr("Background", <<v - 40>>)
    /\ v \in 90..97 => calls[1].val[1] = Attr("Foreground", <<8 + (v - 90)>>)
    /\ v \in 100..107 => calls[1].val[1] = Attr("Foreground", <<8 + (v - 100)>>)

\* C14: each value of 0..9, 22..29, 30..37, 39, 40..47, 49, 90..97 and
\* 100..107, as the only SGR parameter, yields exactly one terminal_attribute
\* call; each of 22..29 a cancellation, 30+k and 40+k Foreground and
\* Background of color k, 90+k and 100+k Foreground of color 8+k.
C14_TableRanges ==
    (/\ IsSgr
     /\ Len(Params) = 1
     /\ Params[1] \in (0..9) \cup (22..29) \cup (30..37) \cup {39}
                      \cup (40..47) \cup {49} \cup (90..97) \cup (100..107))
    => OneAttrOf(Params[1], 22..29)

\* C14 as amended: the same for 0..9, 22..25, 27..29, 30..37, 39, 40..47, 49,
\* 90..97 and 100..107, the cancellations being the seven values 22..25 and
\* 27..29; the single parameter 26 yields no call.
C14_TableRangesWithout26 ==
    (IsSgr /\ Len(Params) = 1) =>
        /\ Params[1] \in (0..9) \cup (22..25) \cup (27..29) \cup (30..37)
                         \cup {39} \cup (40..47) \cup {49} \cup (90..97)
                         \cup (100..107)
            => OneAttrOf(Params[1], (22..25) \cup (27..29))
        /\ Params[1] = 26 => ~fault /\ calls = <<>>

\* CSI 104 m: Foreground(BrightBlue).
C14_Witness ==
    /\ IsSgr
    /\ Params = <<104>>
    /\ calls = <<TermAttr(Attr("Foreground", <<Color("BrightBlue")>>))>>

\* C15: one event makes a bounded number of calls: print, execute, ESC
\* dispatch and CSI dispatch with a final byte other than 'm' at most one;
\* SGR dispatch with n parameters at most max(1, n), all of them
\* terminal_attribute; hook, put, unhook and the OSC events none.  Every pass
\* of the SGR loop that does not leave it makes one call and moves the cursor
\* forward: parse_color never returns a cursor below the one it was given.
C15_BoundedCalls ==
    pc = "dispatched" =>
        /\ (\/ KindOf(ev) \in {"print", "execute", "esc"}
            \/ KindOf(ev) = "csi" /\ ByteOf(ev) # Ch("m"))
            => Len(calls) <= 1
        /\ IsSgr =>
            /\ Len(calls) <= (IF Len(Params) > 1 THEN Len(Params) ELSE 1)
            /\ \A k \in 1..Len(calls) : calls[k].fn = "terminal_attribute"
            /\ \A i \in 0..(Len(Params) - 1) :
                CursorOf(parse_color(SubSeq(Params, i + 1, Len(Params)), i))
                    >= i
        /\ KindOf(ev) \in {"hook", "put", "unhook", "osc_start", "osc_put",
                           "osc_end"}
            => calls = <<>>

\* Three parameters, three calls.
C15_Witness ==
    /\ IsSgr
    /\ Params = <<0, 1, 2>>
    /\ Len(calls) = 3
    /\ \A k \in 1..3 : calls[k].fn = "terminal_attribute"

\* C16: TermInfo is read only to resolve the default bottom margin: lines is
\* called only during a CSI r without the private marker whose second
\* parameter is absent or zero, and cols never.
C16_LinesOnlyForDefault ==
    pc = "dispatched" =>
        /\ \A k \in 1..Len(queries) : queries[k] # "cols"
        /\ queries # <<>> =>
            /\ IsCsi("r")
            /\ ~IsPrivate
            /\ Len(Params) < 2 \/ Params[2] = 0

\* The first of the intermediate bytes t is '?'.
PrivateMarker(t) == Len(t) > 0 /\ t[1] = Ch("?")

\* The observer kept a dispatch of the same kind with the same final byte.
KeptSameFinal ==
    /\ pc = "dispatched"
    /\ Taken(ref)
    /\ KindOf(KeptEvent(ref)) = KindOf(ev)
    /\ ByteOf(KeptEvent(ref)) = ByteOf(ev)

\* C17: two ESC dispatches with the same final byte make the same calls,
\* whatever their intermediate bytes, parameters and ignore flags, so ESC # 8
\* calls restore_cursor_position as ESC 8 does; two CSI dispatches with the
\* same final byte, parameters and line count make the same calls when their
\* first intermediates agree on being '?', whatever the other intermediates
\* and the ignore flags.
C17_FinalByteDecides ==
    /\ (KeptSameFinal /\ KindOf(ev) = "esc") =>
        /\ ~fault
        /\ calls = KeptCalls(ref)
        /\ queries = KeptQueries(ref)
    /\ (/\ KeptSameFinal
        /\ KindOf(ev) = "csi"
        /\ ParamsOf(KeptEvent(ref)) = Params
        /\ KeptLines(ref) = termLines
        /\ PrivateMarker(IntermediatesOf(KeptEvent(ref)))
            = PrivateMarker(IntermediatesOf(ev)))
        => /\ ~fault
           /\ calls = KeptCalls(ref)
           /\ queries = KeptQueries(ref)
    /\ (pc = "dispatched" /\ KindOf(ev) = "esc" /\ ByteOf(ev) = Ch("8")) =>
        calls = <<Call("restore_cursor_position", <<>>)>>

\* ESC # 8 with a parameter and the ignore flag, after the observer kept the
\* bare ESC 8.
C17_Witness ==
    /\ KeptSameFinal
    /\ ev = Event("esc", <<1>>, <<Ch("#")>>, TRUE, Ch("8"))
    /\ KeptEvent(ref) = Event("esc", <<>>, <<>>, FALSE, Ch("8"))
    /\ calls = <<Call("restore_cursor_position", <<>>)>>
    /\ calls = KeptCalls(ref)

====
